---- MODULE Spec2Model ----
(***************************************************************************)
(* Model of inventory_system.py: a module-level dictionary stock_data      *)
(* (item -> quantity), the operations add_item, remove_item, get_qty,      *)
(* check_low_items, save_data and load_data, the caller-owned log list     *)
(* and the JSON file the store is persisted to.                            *)
(*                                                                         *)
(* A Python dict keeps insertion order, so stock_data is a sequence of     *)
(* entries [key, qty] with pairwise different keys.  Python values carry   *)
(* their type: an item is [kind, txt] (the str "7" and the int 7 are       *)
(* different keys), a quantity argument is [kind, n].                      *)
(***************************************************************************)
EXTENDS Integers, Sequences, FiniteSets, TLC

VARIABLES
    stock_data,   \* the global dict: sequence of [key, qty], insertion order
    files,        \* path -> content of the file system
    logs,         \* the caller's log list (inventory_logs of main)
    lastOp,       \* the last call: operation, branch taken, exception, result
    hist,         \* ghost: the add/remove calls made so far (ledger runs)
    insOrder,     \* ghost: present keys by their latest insertion
    firstIns      \* ghost: keys by their first insertion ever

vars == <<stock_data, files, logs, lastOp, hist, insOrder, firstIns>>

---------------------------------------------------------------------------
(* Bounds of the model *)

MaxStock == 2   \* the total quantity held by the store
MaxLogs == 2    \* the length of the caller's log list
MaxHist == 3    \* the number of calls of a ledger run

(* check_low_items(threshold=5) *)
DefaultThreshold == 5

---------------------------------------------------------------------------
(* Python values *)

Str(s) == [kind |-> "str", txt |-> s]
Num(s) == [kind |-> "int", txt |-> s]
None == [kind |-> "none", txt |-> "None"]

IntQ(n) == [kind |-> "int", n |-> n]
BoolQ(b) == [kind |-> "bool", n |-> IF b THEN 1 ELSE 0]
TextQ == [kind |-> "str", n |-> 0]

(* `not item` is true for "", 0 and None *)
Truthy(item) ==
    CASE item.kind = "str" -> item.txt # ""
      [] item.kind = "int" -> item.txt # "0"
      [] OTHER -> FALSE

(* isinstance(qty, int): bool is a subclass of int *)
IsInstanceInt(q) == q.kind \in {"int", "bool"}

(* f"{qty}" *)
QtyText(q) ==
    CASE q.kind = "bool" -> IF q.n = 1 THEN "True" ELSE "False"
      [] q.kind = "int" -> ToString(q.n)
      [] OTHER -> "ten"

---------------------------------------------------------------------------
(* dict operations on a sequence of entries *)

DictHas(d, k) == \E i \in DOMAIN d : d[i].key = k

IndexOf(d, k) == CHOOSE i \in DOMAIN d : d[i].key = k

DictGet(d, k, default) == IF DictHas(d, k) THEN d[IndexOf(d, k)].qty ELSE default

(* d[k] = v: a present key keeps its place, a new key goes last *)
DictSet(d, k, v) ==
    IF DictHas(d, k)
    THEN [d EXCEPT ![IndexOf(d, k)].qty = v]
    ELSE Append(d, [key |-> k, qty |-> v])

DictDel(d, k) == SelectSeq(d, LAMBDA e : e.key # k)

DictKeys(d) == {d[i].key : i \in DOMAIN d}

KeyList(d) == [i \in DOMAIN d |-> d[i].key]

(* dict equality of Python: same keys with the same values, order ignored *)
DictEq(d, e) ==
    /\ DictKeys(d) = DictKeys(e)
    /\ \A k \in DictKeys(d) : DictGet(d, k, 0) = DictGet(e, k, 0)

---------------------------------------------------------------------------
(* JSON: a document is the sequence of members [name, val] of one object;  *)
(* the indentation of json.dumps(indent=4) is whitespace and not modelled. *)

(* json.dumps turns a key into a member name: str as is, int by its digits *)
JsonKey(k) ==
    CASE k.kind = "str" -> k.txt
      [] k.kind = "int" -> k.txt
      [] OTHER -> "null"

(* faulty variant: the last member is not written *)
json_dumpsDropsLast(d) ==
    [i \in 1..(Len(d) - 1) |-> [name |-> JsonKey(d[i].key), val |-> d[i].qty]]

json_dumps(d) == [i \in DOMAIN d |-> [name |-> JsonKey(d[i].key), val |-> d[i].qty]]

(* json.loads builds the dict member by member: a repeated name keeps the  *)
(* place of its first occurrence and the value of its last                 *)
RECURSIVE json_object(_, _)
json_object(doc, d) ==
    IF doc = <<>> THEN d
    ELSE json_object(Tail(doc), DictSet(d, Str(Head(doc).name), Head(doc).val))

json_loads(doc) == json_object(doc, <<>>)

Missing == [kind |-> "missing", doc |-> <<>>]
Garbage == [kind |-> "garbage", doc |-> <<>>]
JsonFile(doc) == [kind |-> "json", doc |-> doc]

---------------------------------------------------------------------------
(* The record of a call *)

Op(op, branch, raised) ==
    [op |-> op, branch |-> branch, raised |-> raised,
     path |-> "", retQty |-> 0, retLow |-> <<>>]

---------------------------------------------------------------------------
(* add_item(item, qty, logs) *)

(* faulty variant: the `or qty < 0` of the quantity check is missing *)
AddBranchNoSignCheck(item, qty) ==
    IF ~Truthy(item) THEN "no_name"
    ELSE IF ~IsInstanceInt(qty) THEN "bad_qty"
    ELSE "added"

(* the two validations, in the order of the code *)
AddBranch(item, qty) ==
    IF ~Truthy(item) THEN "no_name"
    ELSE IF ~IsInstanceInt(qty) \/ qty.n < 0 THEN "bad_qty"
    ELSE "added"

(* stock_data[item] = stock_data.get(item, 0) + qty *)
AddStore(d, item, qty) ==
    IF AddBranch(item, qty) = "added"
    THEN DictSet(d, item, DictGet(d, item, 0) + qty.n)
    ELSE d

(* faulty variant: the entry is appended before the validations *)
AddLogsBeforeValidation(l, item, qty, passLogs) ==
    IF passLogs
    THEN Append(l, [qty |-> QtyText(qty), item |-> item.txt])
    ELSE l

(* logs.append(f"{datetime.now()}: Added {qty} of {item}"); the timestamp  *)
(* is left out of the entry.  With logs=None the list is local to the call *)
AddLogs(l, item, qty, passLogs) ==
    IF AddBranch(item, qty) = "added" /\ passLogs
    THEN Append(l, [qty |-> QtyText(qty), item |-> item.txt])
    ELSE l

add_item(item, qty, passLogs) ==
    /\ lastOp' = Op("add", AddBranch(item, qty), "none")
    /\ stock_data' = AddStore(stock_data, item, qty)
    /\ logs' = AddLogs(logs, item, qty, passLogs)
    /\ UNCHANGED files

---------------------------------------------------------------------------
(* remove_item(item, qty) *)

(* faulty variant: `>` for the `>=` of the stock check *)
RemoveBranchStrict(d, item, qty) ==
    IF qty.kind = "str" THEN "type_error"
    ELSE IF DictGet(d, item, 0) > qty.n
         THEN IF ~DictHas(d, item) THEN "key_error"
              ELSE IF DictGet(d, item, 0) - qty.n <= 0 THEN "deleted"
              ELSE "subtracted"
         ELSE "insufficient"

(* The path through the code.  `stock_data.get(item, 0) >= qty` raises     *)
(* TypeError for a str qty (outside the try's except clause, it reaches    *)
(* the caller); `stock_data[item] -= qty` reads stock_data[item] first and *)
(* raises KeyError for an absent item, which the except clause catches.    *)
RemoveBranch(d, item, qty) ==
    IF qty.kind = "str" THEN "type_error"
    ELSE IF DictGet(d, item, 0) >= qty.n
         THEN IF ~DictHas(d, item) THEN "key_error"
              ELSE IF DictGet(d, item, 0) - qty.n <= 0 THEN "deleted"
              ELSE "subtracted"
         ELSE "insufficient"

(* faulty variant: `< 0` for the `<= 0` of the deletion, a quantity of 0 is kept *)
RemoveStoreKeepsZero(d, item, qty) ==
    IF RemoveBranch(d, item, qty) \in {"deleted", "subtracted"}
    THEN DictSet(d, item, DictGet(d, item, 0) - qty.n)
    ELSE d

RemoveStore(d, item, qty) ==
    CASE RemoveBranch(d, item, qty) = "deleted" -> DictDel(d, item)
      [] RemoveBranch(d, item, qty) = "subtracted" ->
            DictSet(d, item, DictGet(d, item, 0) - qty.n)
      [] OTHER -> d

(* faulty variant: no except clause, the KeyError reaches the caller *)
RemoveRaisedUncaught(d, item, qty) ==
    CASE RemoveBranch(d, item, qty) = "type_error" -> "TypeError"
      [] RemoveBranch(d, item, qty) = "key_error" -> "KeyError"
      [] OTHER -> "none"

(* what reaches the caller: except KeyError handles the KeyError only *)
RemoveRaised(d, item, qty) ==
    IF RemoveBranch(d, item, qty) = "type_error" THEN "TypeError" ELSE "none"

remove_item(item, qty) ==
    /\ lastOp' = Op("remove", RemoveBranch(stock_data, item, qty),
                    RemoveRaised(stock_data, item, qty))
    /\ stock_data' = RemoveStore(stock_data, item, qty)
    /\ UNCHANGED <<files, logs>>

---------------------------------------------------------------------------
(* get_qty(item) *)

GetQty(d, item) == DictGet(d, item, 0)

get_qty(item) ==
    /\ lastOp' = [Op("get_qty", "returned", "none") EXCEPT
                     !.retQty = GetQty(stock_data, item)]
    /\ UNCHANGED <<stock_data, files, logs>>

---------------------------------------------------------------------------
(* check_low_items(threshold) *)

(* faulty variant: `<=` for the `<` of the comparison *)
CheckLowInclusive(d, threshold) ==
    KeyList(SelectSeq(d, LAMBDA e : e.qty <= threshold))

CheckLow(d, threshold) == KeyList(SelectSeq(d, LAMBDA e : e.qty < threshold))

check_low_items(threshold) ==
    /\ lastOp' = [Op("check_low", "returned", "none") EXCEPT
                     !.retLow = CheckLow(stock_data, threshold)]
    /\ UNCHANGED <<stock_data, files, logs>>

---------------------------------------------------------------------------
(* load_data(file) *)

LoadBranch(f) ==
    CASE f.kind = "missing" -> "not_found"
      [] f.kind = "garbage" -> "decode_error"
      [] OTHER -> "loaded"

(* stock_data is assigned only when json.loads returns; both except        *)
(* clauses log and leave it as it is                                       *)
LoadStore(d, f) == IF LoadBranch(f) = "loaded" THEN json_loads(f.doc) ELSE d

load_data(path) ==
    /\ lastOp' = [Op("load", LoadBranch(files[path]), "none") EXCEPT !.path = path]
    /\ stock_data' = LoadStore(stock_data, files[path])
    /\ UNCHANGED <<files, logs>>

---------------------------------------------------------------------------
(* save_data(file) *)

(* open(file, "w") truncates the file; an IOError of open leaves the file  *)
(* as it was, an IOError of write leaves it truncated or incomplete        *)
SaveOutcomes == {"ok", "open_fails", "write_fails"}

SaveFile(d, f, outcome) ==
    CASE outcome = "ok" -> JsonFile(json_dumps(d))
      [] outcome = "write_fails" -> Garbage
      [] OTHER -> f

save_data(path, outcome) ==
    /\ lastOp' = [Op("save", IF outcome = "ok" THEN "saved" ELSE "io_error", "none")
                     EXCEPT !.path = path]
    /\ files' = [files EXCEPT ![path] = SaveFile(stock_data, files[path], outcome)]
    /\ UNCHANGED <<stock_data, logs>>

---------------------------------------------------------------------------
(* Ghost bookkeeping of insertions, kept beside the dict and not read by   *)
(* the operations                                                          *)

Range(s) == {s[i] : i \in DOMAIN s}

Without(s, k) == SelectSeq(s, LAMBDA x : x # k)

AppendNew(s, k) == IF k \in Range(s) THEN s ELSE Append(s, k)

NoteAdd(item, qty) ==
    IF AddBranch(item, qty) = "added" /\ ~DictHas(stock_data, item)
    THEN /\ insOrder' = Append(insOrder, item)
         /\ firstIns' = AppendNew(firstIns, item)
    ELSE UNCHANGED <<insOrder, firstIns>>

NoteRemove(item, qty) ==
    IF RemoveBranch(stock_data, item, qty) = "deleted"
    THEN /\ insOrder' = Without(insOrder, item)
         /\ UNCHANGED firstIns
    ELSE UNCHANGED <<insOrder, firstIns>>

RECURSIVE Total(_)
Total(d) == IF d = <<>> THEN 0 ELSE Head(d).qty + Total(Tail(d))

---------------------------------------------------------------------------
(* The calls, one action per operation *)

Init ==
    /\ stock_data = <<>>
    /\ files \in [{"inventory.json"} -> {Missing, Garbage}]
    /\ logs = <<>>
    /\ lastOp = Op("none", "none", "none")
    /\ hist = <<>>
    /\ insOrder = <<>>
    /\ firstIns = <<>>

(* the guards keep the run inside the bounds *)
AddItemCall(item, qty, passLogs) ==
    /\ Total(AddStore(stock_data, item, qty)) <= MaxStock
    /\ Len(AddLogs(logs, item, qty, passLogs)) <= MaxLogs
    /\ add_item(item, qty, passLogs)

RemoveItemCall(item, qty) ==
    /\ Total(RemoveStore(stock_data, item, qty)) <= MaxStock
    /\ remove_item(item, qty)

AddItem(item, qty, passLogs) ==
    /\ AddItemCall(item, qty, passLogs)
    /\ UNCHANGED <<hist, insOrder, firstIns>>

RemoveItem(item, qty) ==
    /\ RemoveItemCall(item, qty)
    /\ UNCHANGED <<hist, insOrder, firstIns>>

GetQtyCall(item) ==
    /\ get_qty(item)
    /\ UNCHANGED <<hist, insOrder, firstIns>>

CheckLowItems(threshold) ==
    /\ check_low_items(threshold)
    /\ UNCHANGED <<hist, insOrder, firstIns>>

LoadData(path) ==
    /\ load_data(path)
    /\ UNCHANGED <<hist, insOrder, firstIns>>

SaveData(path, outcome) ==
    /\ save_data(path, outcome)
    /\ UNCHANGED <<hist, insOrder, firstIns>>

(* the same calls with the insertions noted *)
TrackedAdd(item, qty) ==
    /\ AddItemCall(item, qty, FALSE)
    /\ NoteAdd(item, qty)
    /\ UNCHANGED hist

TrackedRemove(item, qty) ==
    /\ RemoveItemCall(item, qty)
    /\ NoteRemove(item, qty)
    /\ UNCHANGED hist

---------------------------------------------------------------------------
(* Spec: the four operations that change the store or the file, the        *)
(* caller passing no log list                                              *)

Paths == {"inventory.json"}

Items == {Str("apple"), Str("7"), Num("7"), Str("")}

AddQtys == {IntQ(-1), IntQ(0), IntQ(1), BoolQ(TRUE)}

RemoveQtys == {IntQ(-1), IntQ(0), IntQ(1), IntQ(2)}

Next ==
    \/ \E item \in Items, qty \in AddQtys : AddItem(item, qty, FALSE)
    \/ \E item \in Items, qty \in RemoveQtys : RemoveItem(item, qty)
    \/ \E path \in Paths : LoadData(path)
    \/ \E path \in Paths, outcome \in SaveOutcomes : SaveData(path, outcome)

Spec == Init /\ [][Next]_vars

---------------------------------------------------------------------------
(* SpecStore: the operations on the store in memory, with every kind of    *)
(* argument                                                                *)

StoreItems == {Str("apple"), Str("7"), Num("7"), Str(""), Num("0"), None}

StoreAddQtys == {IntQ(n) : n \in -1..MaxStock} \cup {BoolQ(TRUE), BoolQ(FALSE), TextQ}

StoreRemoveQtys == {IntQ(n) : n \in -1..(MaxStock + 1)} \cup {TextQ}

NextStore ==
    \/ \E item \in StoreItems, qty \in StoreAddQtys : AddItem(item, qty, FALSE)
    \/ \E item \in StoreItems, qty \in StoreRemoveQtys : RemoveItem(item, qty)
    \/ \E item \in StoreItems : GetQtyCall(item)

SpecStore == Init /\ [][NextStore]_vars

---------------------------------------------------------------------------
(* SpecOrder: add_item, remove_item and check_low_items, with the          *)
(* insertions noted in insOrder and firstIns                               *)

OrderItems == {Str("apple"), Str("7"), Num("7"), Str("")}

OrderAddQtys == {IntQ(n) : n \in -1..MaxStock}

OrderRemoveQtys == {IntQ(n) : n \in 0..MaxStock}

Thresholds == (-1..(MaxStock + 1)) \cup {DefaultThreshold}

NextOrder ==
    \/ \E item \in OrderItems, qty \in OrderAddQtys : TrackedAdd(item, qty)
    \/ \E item \in OrderItems, qty \in OrderRemoveQtys : TrackedRemove(item, qty)
    \/ \E threshold \in Thresholds : CheckLowItems(threshold)

SpecOrder == Init /\ [][NextOrder]_vars

---------------------------------------------------------------------------
(* SpecLog: every operation, the caller passing its log list to each       *)
(* add_item call                                                           *)

LogItems == {Str("apple"), Num("7"), Str("")}

LogAddQtys == {IntQ(-1), IntQ(1), BoolQ(TRUE)}

NextLog ==
    \/ \E item \in LogItems, qty \in LogAddQtys : AddItem(item, qty, TRUE)
    \/ \E item \in LogItems : RemoveItem(item, IntQ(1))
    \/ \E item \in LogItems : GetQtyCall(item)
    \/ CheckLowItems(DefaultThreshold)
    \/ \E path \in Paths : LoadData(path)
    \/ \E path \in Paths, outcome \in SaveOutcomes : SaveData(path, outcome)

SpecLog == Init /\ [][NextLog]_vars

---------------------------------------------------------------------------
(* SpecFiles: the operations that change the store or a file, with two     *)
(* paths                                                                   *)

FilePaths == {"inventory.json", "backup.json"}

FileItems == {Str("apple"), Str("7"), Num("7")}

InitFiles ==
    /\ stock_data = <<>>
    /\ files \in [FilePaths -> {Missing, Garbage}]
    /\ logs = <<>>
    /\ lastOp = Op("none", "none", "none")
    /\ hist = <<>>
    /\ insOrder = <<>>
    /\ firstIns = <<>>

NextFiles ==
    \/ \E item \in FileItems : AddItem(item, IntQ(1), FALSE)
    \/ \E item \in FileItems : RemoveItem(item, IntQ(1))
    \/ \E path \in FilePaths : LoadData(path)
    \/ \E path \in FilePaths, outcome \in SaveOutcomes : SaveData(path, outcome)

SpecFiles == InitFiles /\ [][NextFiles]_vars

---------------------------------------------------------------------------
(* SpecLedger: from the empty store, add_item with valid arguments and     *)
(* remove_item with qty >= 0, every call written to hist                   *)

LedgerItems == {Str("apple"), Num("7")}

LedgerAdd(item, n) ==
    /\ Len(hist) < MaxHist
    /\ AddItemCall(item, IntQ(n), FALSE)
    /\ hist' = Append(hist, [op |-> "add", item |-> item, n |-> n])
    /\ UNCHANGED <<insOrder, firstIns>>

LedgerRemove(item, n) ==
    /\ Len(hist) < MaxHist
    /\ RemoveItemCall(item, IntQ(n))
    /\ hist' = Append(hist, [op |-> "remove", item |-> item, n |-> n])
    /\ UNCHANGED <<insOrder, firstIns>>

NextLedger ==
    \/ \E item \in LedgerItems, n \in 0..MaxStock : LedgerAdd(item, n)
    \/ \E item \in LedgerItems, n \in 0..(MaxStock + 1) : LedgerRemove(item, n)
    \/ \E item \in LedgerItems : GetQtyCall(item)

SpecLedger == Init /\ [][NextLedger]_vars

---------------------------------------------------------------------------
(* Vocabulary of the claims, stated on Python values and not through the   *)
(* validations of the code                                                 *)

Ints == {IntQ(n) : n \in -1..(MaxStock + 1)}

AnyItem == StoreItems

(* "", 0 and None *)
Falsy == {Str(""), Num("0"), None}

(* a Python int, bool included, that is not negative *)
NonNegativeInt(q) == q.kind \in {"int", "bool"} /\ q.n >= 0

NoDuplicates(s) == \A i, j \in DOMAIN s : s[i] = s[j] => i = j

(* x is listed before y in s *)
Before(s, x, y) == \E i, j \in DOMAIN s : i < j /\ s[i] = x /\ s[j] = y

LowKeys(d, threshold) == {k \in DictKeys(d) : GetQty(d, k) < threshold}

StringKeysPositive(d) ==
    \A i \in DOMAIN d : d[i].key.kind = "str" /\ d[i].qty > 0

---------------------------------------------------------------------------
(* C1 as claimed: no entry of stock_data has a quantity <= 0, in any state *)
(* reached by add_item, remove_item, save_data and load_data.              *)
C1_NoEntryAtOrBelowZero ==
    \A i \in DOMAIN stock_data : stock_data[i].qty > 0

(* C2 as claimed: remove_item(item, qty) with an integer qty >= the item's *)
(* quantity leaves the item absent, and get_qty(item) is 0.                *)
C2_RemoveAtLeastHeld ==
    [][lastOp'.op = "remove" => \A item \in AnyItem, q \in Ints :
          (q.n >= GetQty(stock_data, item) /\ remove_item(item, q))
          => (~DictHas(stock_data', item) /\ GetQty(stock_data', item) = 0)]_vars

(* C2 amended: remove_item(item, qty) with an integer qty equal to the     *)
(* item's quantity (0 for an absent item) leaves the item absent, and      *)
(* get_qty(item) is 0; a qty above the quantity held changes nothing.      *)
C2_RemoveExactlyHeld ==
    [][lastOp'.op = "remove" => \A item \in AnyItem, q \in Ints :
          /\ (q.n = GetQty(stock_data, item) /\ remove_item(item, q))
             => (~DictHas(stock_data', item) /\ GetQty(stock_data', item) = 0)
          /\ (q.n > GetQty(stock_data, item) /\ remove_item(item, q))
             => stock_data' = stock_data]_vars

(* C2's case: a removal of exactly the quantity held deleted the entry *)
C2_Witness == lastOp.op = "remove" /\ lastOp.branch = "deleted"

(* C3 as claimed: load_data of a file that does not exist or holds no      *)
(* valid JSON leaves stock_data empty, and no exception reaches the caller.*)
C3_FailedLoadEmptiesStore ==
    (lastOp.op = "load" /\ lastOp.branch \in {"not_found", "decode_error"})
    => (stock_data = <<>> /\ lastOp.raised = "none")

(* C4 as claimed: add_item leaves stock_data unchanged when the item is    *)
(* not a string or is falsy, or the quantity is negative or not an         *)
(* integer, a boolean counting as not an integer.                          *)
C4_InvalidAddChangesNothing ==
    [][lastOp'.op = "add" => \A item \in AnyItem, q \in StoreAddQtys :
          (/\ \/ item.kind # "str"
              \/ item \in Falsy
              \/ q.kind # "int"
              \/ q.n < 0
           /\ add_item(item, q, FALSE))
          => stock_data' = stock_data]_vars

(* C4 amended: add_item leaves stock_data unchanged when the item is falsy *)
(* ("", 0, None) or the quantity is negative or not an instance of int;    *)
(* a truthy item that is not a string is accepted as a key, and a bool is  *)
(* an int.                                                                 *)
C4_RejectedAddChangesNothing ==
    [][lastOp'.op = "add" => \A item \in AnyItem, q \in StoreAddQtys :
          (/\ \/ item \in Falsy
              \/ q.kind \notin {"int", "bool"}
              \/ q.n < 0
           /\ add_item(item, q, FALSE))
          => stock_data' = stock_data]_vars

(* C4's case: add_item returned at one of its validations *)
C4_Witness ==
    /\ lastOp.op = "add"
    /\ lastOp.branch \in {"no_name", "bad_qty"}
    /\ stock_data # <<>>

(* C5: remove_item of an item that is not in stock_data, with any integer  *)
(* qty, leaves stock_data unchanged and raises nothing to the caller.      *)
C5_RemoveAbsentChangesNothing ==
    [][lastOp'.op = "remove" => \A item \in AnyItem, q \in Ints :
          (~DictHas(stock_data, item) /\ remove_item(item, q))
          => (stock_data' = stock_data /\ lastOp'.raised = "none")]_vars

(* C5's case: the removal of an absent item went through the KeyError *)
C5_Witness ==
    /\ lastOp.op = "remove"
    /\ lastOp.branch = "key_error"
    /\ stock_data # <<>>

(* The quantity the calls of h leave for item, from v: an add adds, a      *)
(* removal of no more than is held subtracts, any other removal is skipped *)
RECURSIVE Balance(_, _, _)
Balance(h, item, v) ==
    IF h = <<>> THEN v
    ELSE Balance(Tail(h), item,
                 IF Head(h).item # item THEN v
                 ELSE IF Head(h).op = "add" THEN v + Head(h).n
                 ELSE IF Head(h).n <= v THEN v - Head(h).n
                 ELSE v)

(* C6: from the empty store, after add_item calls with valid arguments and *)
(* remove_item calls with qty >= 0, get_qty(item) is the sum of the adds   *)
(* of item minus its applied removals, for every item.                     *)
C6_QtyIsLedgerBalance ==
    /\ [](\A item \in AnyItem : GetQty(stock_data, item) = Balance(hist, item, 0))
    /\ [][lastOp'.op = "get_qty" => \A item \in LedgerItems :
             get_qty(item) => lastOp'.retQty = Balance(hist, item, 0)]_vars

(* C6's case: adds, an applied and a rejected removal, then get_qty *)
C6_Witness ==
    /\ lastOp.op = "get_qty"
    /\ lastOp.retQty > 0
    /\ \E i, j, k \in DOMAIN hist :
          /\ i < j /\ i < k /\ j # k
          /\ hist[i].op = "add" /\ hist[j].op = "remove" /\ hist[k].op = "remove"
          /\ hist[i].item = hist[j].item /\ hist[i].item = hist[k].item
          /\ hist[j].n > 0
          /\ Balance(SubSeq(hist, 1, j), hist[j].item, 0)
                < Balance(SubSeq(hist, 1, j - 1), hist[j].item, 0)
          /\ hist[k].n > Balance(SubSeq(hist, 1, k - 1), hist[k].item, 0)

(* C7 as claimed: check_low_items(threshold) returns exactly the items     *)
(* whose quantity is below threshold, in the order in which the items were *)
(* first inserted into the store, and does not change the store.           *)
C7_LowItemsInFirstInsertionOrder ==
    [][lastOp'.op = "check_low" => \A threshold \in Thresholds :
          check_low_items(threshold)
          => /\ lastOp'.retLow =
                  SelectSeq(firstIns, LAMBDA k : k \in LowKeys(stock_data, threshold))
             /\ stock_data' = stock_data]_vars

(* C7 amended: check_low_items(threshold) returns exactly the items whose  *)
(* quantity is below threshold, none twice, in the iteration order of the  *)
(* dict, which is the order of the latest insertion of each key (a key     *)
(* deleted and added again moves to the end), and does not change the      *)
(* store.                                                                  *)
C7_LowItemsInLatestInsertionOrder ==
    [][lastOp'.op = "check_low" => \A threshold \in Thresholds :
          check_low_items(threshold)
          => /\ Range(lastOp'.retLow) = LowKeys(stock_data, threshold)
             /\ NoDuplicates(lastOp'.retLow)
             /\ \A x, y \in Range(lastOp'.retLow) :
                   Before(lastOp'.retLow, x, y) <=> Before(insOrder, x, y)
             /\ stock_data' = stock_data]_vars

(* C7's case: two low items are returned, one of them inserted again after *)
(* its deletion, and an item at the threshold is left out                  *)
C7_Witness ==
    /\ lastOp.op = "check_low"
    /\ Len(lastOp.retLow) = 2
    /\ Len(stock_data) = 3
    /\ Before(lastOp.retLow, lastOp.retLow[1], lastOp.retLow[2])
    /\ Before(firstIns, lastOp.retLow[2], lastOp.retLow[1])

(* C8: for a store of string keys and positive quantities, save_data(path) *)
(* that wrote the file, followed at once by load_data of the same path,    *)
(* gives a store with the same keys and quantities; save_data does not     *)
(* change the store.                                                       *)
C8_SaveLoadRoundTrip ==
    [][/\ lastOp'.op = "load" =>
            \A path \in FilePaths :
               (/\ lastOp.op = "save" /\ lastOp.branch = "saved"
                /\ lastOp.path = path
                /\ StringKeysPositive(stock_data)
                /\ load_data(path))
               => (lastOp'.branch = "loaded" /\ DictEq(stock_data', stock_data))
       /\ lastOp'.op = "save" => stock_data' = stock_data]_vars

(* C8's case: a store of two string keys was loaded again from the path it *)
(* was saved to, the other path holding another document                   *)
C8_Witness ==
    /\ lastOp.op = "load" /\ lastOp.branch = "loaded"
    /\ Len(stock_data) = 2
    /\ StringKeysPositive(stock_data)
    /\ files[lastOp.path] = JsonFile(json_dumps(stock_data))
    /\ \E other \in FilePaths :
          files[other].kind = "json" /\ files[other] # files[lastOp.path]

(* C9: with the log list passed to every add_item call, an add_item that   *)
(* passes validation appends exactly one entry at the end of the log, a    *)
(* rejected add_item appends none, and no other operation changes the log. *)
C9_OneLogEntryPerAdd ==
    [][/\ lastOp'.op = "add" =>
            \A item \in LogItems, q \in LogAddQtys :
               add_item(item, q, TRUE)
               => IF item \notin Falsy /\ NonNegativeInt(q)
                  THEN /\ Len(logs') = Len(logs) + 1
                       /\ SubSeq(logs', 1, Len(logs)) = logs
                       /\ logs'[Len(logs')].item = item.txt
                  ELSE logs' = logs
       /\ lastOp'.op # "add" => logs' = logs]_vars

(* C9's case: two different adds were logged, then a rejected add left the *)
(* log as it was                                                           *)
C9_Witness ==
    /\ Len(logs) = 2
    /\ logs[1] # logs[2]
    /\ lastOp.op = "add" /\ lastOp.branch = "bad_qty"
    /\ Len(stock_data) = 1

(* C10 as claimed: remove_item(item, qty), for any integer qty, increases  *)
(* the quantity of no item and leaves the other items as they are.         *)
C10_RemoveNeverIncreases ==
    [][lastOp'.op = "remove" => \A item \in AnyItem, q \in Ints :
          remove_item(item, q)
          => \A x \in AnyItem :
                /\ GetQty(stock_data', x) <= GetQty(stock_data, x)
                /\ x # item => GetQty(stock_data', x) = GetQty(stock_data, x)]_vars

====
